---- MODULE Spec2Model ----
(***************************************************************************)
(* A model of crankshaft-singularity: the Singularity builder of lib.rs,   *)
(* its three gateway calls (pull_image, exec, version) and the run         *)
(* function of the singularity-driver binary.                              *)
(*                                                                         *)
(* Rust values are modelled as follows.                                    *)
(*   String            a TLA+ string (format! is \o)                       *)
(*   Vec<T>            a sequence                                          *)
(*   Option<T>         None = <<>>, Some(x) = <<x>>                        *)
(*   u64               its decimal digits, least significant first (TLC's  *)
(*                     integers are 32 bits wide and 2 GiB is 2^31)        *)
(*   IndexMap<K, V>    a sequence of <<key, value>> pairs with distinct    *)
(*                     keys, in the map's iteration order                  *)
(*   Result<T, E>      [ok |-> TRUE, val |-> v] or [ok |-> FALSE, err |-> e]*)
(* The external runtime and the filesystem are the environment: a spawned  *)
(* process ends in any of ProcOutcomes, chosen nondeterministically.       *)
(***************************************************************************)
EXTENDS Integers, Sequences, FiniteSets, TLC

VARIABLES
    spec,     \* the Singularity value being built (lib.rs:41-65)
    writes,   \* history: the <<name, value>> pairs written by env/envs, in order
    fs,       \* the filesystem: the set of paths at which an entry exists
    procs,    \* every process handed to the OS so far: [cmd, args], in order
    calls,    \* history: one record per pull_image / exec / version call
    runs      \* history: one record per run of the driver's run function

vars == <<spec, writes, fs, procs, calls, runs>>

----------------------------------------------------------------------------
(* Bounds of the model *)

MaxArgs == 2      \* longest spec.args built
MaxWrites == 3    \* most env writes made on one ContainerSpec
MaxPulls == 2     \* most pull_image calls in one behaviour
MaxCmdLen == 3    \* longest command string given to run-container

----------------------------------------------------------------------------
(* Option, Result, u64 *)

None == <<>>
Some(x) == <<x>>
IsSome(o) == o /= <<>>

Ok(v) == [ok |-> TRUE, val |-> v]
Err(e) == [ok |-> FALSE, err |-> e]

DigitChar == <<"0", "1", "2", "3", "4", "5", "6", "7", "8", "9">>

RECURSIVE U64(_)
U64(n) == IF n < 10 THEN <<n>> ELSE <<n % 10>> \o U64(n \div 10)

RECURSIVE MulCarry(_, _, _)
MulCarry(ds, k, carry) ==
    IF ds = <<>>
    THEN (IF carry = 0 THEN <<>> ELSE U64(carry))
    ELSE LET p == Head(ds) * k + carry
         IN  <<p % 10>> \o MulCarry(Tail(ds), k, p \div 10)

\* x * k for a u64 x and a small k
MulU64(x, k) == MulCarry(x, k, 0)

\* Display of a u64: its decimal digits, most significant first
RECURSIVE FmtU64(_)
FmtU64(x) ==
    IF x = <<>> THEN "" ELSE FmtU64(Tail(x)) \o DigitChar[Head(x) + 1]

----------------------------------------------------------------------------
(* HostConfig *)

COMMAND_BASE == "singularity"

\* a faulty variant: the reservation is 2 MiB, one factor of 1024 short
DefaultHostConfig_TwoMiB ==
    [cpu_shares |-> None,
     cpus |-> Some(U64(1)),
     memory |-> None,
     memory_reservation |-> Some(MulU64(MulU64(U64(2), 1024), 1024)),
     binds |-> None,
     contain_all |-> TRUE]

DefaultHostConfig ==
    [cpu_shares |-> None,
     cpus |-> Some(U64(1)),
     memory |-> None,
     memory_reservation |-> Some(MulU64(MulU64(MulU64(U64(2), 1024), 1024), 1024)),
     binds |-> None,
     contain_all |-> TRUE]

\* The HostConfig values a caller constructs (all fields are public)
FullHostConfig ==
    [cpu_shares |-> Some(U64(512)),
     cpus |-> Some(U64(2)),
     memory |-> Some(U64(1024)),
     memory_reservation |-> Some(U64(256)),
     binds |-> Some(<<<<"/h1", "/c1">>, <<"/h3", "/c3">>>>),
     contain_all |-> FALSE]

BareHostConfig ==
    [cpu_shares |-> None,
     cpus |-> None,
     memory |-> None,
     memory_reservation |-> None,
     binds |-> Some(<<>>),
     contain_all |-> FALSE]

HostConfigs == {DefaultHostConfig, FullHostConfig, BareHostConfig}

----------------------------------------------------------------------------
(* The builder: each method takes self by value and returns it *)

new ==
    [image |-> "",
     program |-> "",
     args |-> <<>>,
     attach_stdout |-> FALSE,
     attach_stderr |-> FALSE,
     env |-> <<>>,
     work_dir |-> None,
     host_config |-> None]

image(self, i) == [self EXCEPT !.image = i]

program(self, p) == [self EXCEPT !.program = p]

arg(self, a) == [self EXCEPT !.args = Append(@, a)]

args(self, as) == [self EXCEPT !.args = @ \o as]

attach_stdout(self) == [self EXCEPT !.attach_stdout = TRUE]

attach_stderr(self) == [self EXCEPT !.attach_stderr = TRUE]

\* a faulty variant: a present key is removed and written again at the back
insert_MoveToBack(m, k, v) ==
    Append(SelectSeq(m, LAMBDA e : e[1] /= k), <<k, v>>)

\* IndexMap::insert: a present key keeps its position and takes the new value,
\* an absent key is appended
insert(m, k, v) ==
    IF \E i \in DOMAIN m : m[i][1] = k
    THEN [i \in DOMAIN m |-> IF m[i][1] = k THEN <<k, v>> ELSE m[i]]
    ELSE Append(m, <<k, v>>)

\* IndexMap::extend: insert each pair in iteration order
RECURSIVE extend(_, _)
extend(m, kvs) ==
    IF kvs = <<>> THEN m
    ELSE extend(insert(m, Head(kvs)[1], Head(kvs)[2]), Tail(kvs))

env(self, name, value) == [self EXCEPT !.env = insert(@, name, value)]

envs(self, variables) == [self EXCEPT !.env = extend(@, variables)]

work_dir(self, w) == [self EXCEPT !.work_dir = Some(w)]

host_config(self, h) == [self EXCEPT !.host_config = Some(h)]

----------------------------------------------------------------------------
(* exec: the argument vector, block by block as lib.rs builds it *)

\* self.host_config.as_ref().and_then(|h| h.<field>)
HostField(self, f) ==
    IF IsSome(self.host_config) THEN self.host_config[1][f] ELSE None

\* a faulty variant: the caller's binds win when there are any
SelectedBinds_CallerFirst(self, binds) ==
    IF binds /= <<>> THEN binds
    ELSE IF IsSome(self.host_config) /\ IsSome(self.host_config[1].binds)
         THEN self.host_config[1].binds[1]
         ELSE <<>>

\* ... .and_then(|h| h.binds.clone()).unwrap_or_else(|| binds)
SelectedBinds(self, binds) ==
    IF IsSome(HostField(self, "binds")) THEN HostField(self, "binds")[1] ELSE binds

BindFlags(bs) ==
    [i \in 1..Len(bs) |-> "--bind " \o bs[i][1] \o ":" \o bs[i][2]]

\* if let Some(n) = ... { cmd.arg(format!("<flag>={}", n)) }
U64Flag(flag, o) ==
    IF IsSome(o) THEN <<flag \o "=" \o FmtU64(o[1])>> ELSE <<>>

ResourceFlags(self) ==
    U64Flag("--cpu-shares", HostField(self, "cpu_shares"))
    \o U64Flag("--cpus", HostField(self, "cpus"))
    \o U64Flag("--memory", HostField(self, "memory"))
    \o U64Flag("--memory-reservation", HostField(self, "memory_reservation"))

EnvFlags(m) ==
    [i \in 1..Len(m) |-> "--env " \o m[i][1] \o "=" \o m[i][2]]

WorkDirFlag(self) ==
    IF IsSome(self.work_dir) THEN <<"--workdir " \o self.work_dir[1]>> ELSE <<>>

ContainFlag(self) ==
    IF IsSome(self.host_config) /\ self.host_config[1].contain_all
    THEN <<"--containall">>
    ELSE <<>>

\* a faulty variant: the caller's extra args are added after the image
ExecArgs_ExtraAfterImage(self, binds, extra) ==
    <<"exec">>
    \o BindFlags(SelectedBinds(self, binds))
    \o ResourceFlags(self)
    \o EnvFlags(self.env)
    \o WorkDirFlag(self)
    \o ContainFlag(self)
    \o <<self.image>>
    \o extra
    \o <<self.program>>
    \o self.args

ExecArgs(self, binds, extra) ==
    <<"exec">>
    \o BindFlags(SelectedBinds(self, binds))
    \o ResourceFlags(self)
    \o EnvFlags(self.env)
    \o WorkDirFlag(self)
    \o ContainFlag(self)
    \o extra
    \o <<self.image>>
    \o <<self.program>>
    \o self.args

----------------------------------------------------------------------------
(* The external process: what Command::output() can come back with *)

SpawnFailure ==
    [spawned |-> FALSE, status |-> 127, stdout |-> "", stderr |-> "",
     ioerr |-> "No such file or directory (os error 2)"]

Exited(status, out, err) ==
    [spawned |-> TRUE, status |-> status, stdout |-> out, stderr |-> err,
     ioerr |-> ""]

ProcOutcomes ==
    {SpawnFailure, Exited(0, "out", "warn"), Exited(1, "partial", "boom")}

\* std::process::Output
Output(out) == [status |-> out.status, stdout |-> out.stdout, stderr |-> out.stderr]

Unit == "()"

\* a faulty variant: the exit status is not looked at
exec_result_IgnoreStatus(out) ==
    IF out.spawned
    THEN Ok(Output(out))
    ELSE Err("Failed to execute Singularity: " \o out.ioerr)

\* the match on cmd.output() in exec
exec_result(out) ==
    IF out.spawned
    THEN IF out.status = 0
         THEN Ok(Output(out))
         ELSE Err("Failed to execute command: " \o out.stderr)
    ELSE Err("Failed to execute Singularity: " \o out.ioerr)

\* version: `.output()?`, then the test of the status
version_result(out) ==
    IF ~out.spawned
    THEN Err(out.ioerr)
    ELSE IF out.status = 0
         THEN Ok(out.stdout)
         ELSE Err("Failed to get Singularity version: " \o out.stderr)

\* a faulty variant: the exit status is not looked at
pull_result_IgnoreStatus(out) ==
    IF out.spawned
    THEN Ok(Unit)
    ELSE Err("Failed to execute Singularity: " \o out.ioerr)

\* the match on cmd.output() in pull_image
pull_result(out) ==
    IF out.spawned
    THEN IF out.status = 0
         THEN Ok(Unit)
         ELSE Err("Failed to pull image: " \o out.stderr)
    ELSE Err("Failed to execute Singularity: " \o out.ioerr)

\* a faulty variant: the test is inverted
exists_Inverted(path) == path \notin fs

\* std::path::Path::new(output_path).exists()
exists(path) == path \in fs

PullArgs(img, path) == <<"pull", path, img>>

\* Command::new(COMMAND_BASE) with its arguments, handed to the OS
Spawn(argv) == procs' = Append(procs, [cmd |-> COMMAND_BASE, args |-> argv])

\* Singularity::exec on self; out is what the process does
exec(self, binds, extra, out) ==
    /\ Spawn(ExecArgs(self, binds, extra))
    /\ calls' = Append(calls,
           [op |-> "exec", self |-> self, binds |-> binds, args |-> extra,
            procs_before |-> Len(procs), out |-> out,
            result |-> exec_result(out)])

\* Singularity::version
version(out) ==
    /\ Spawn(<<"--version">>)
    /\ calls' = Append(calls,
           [op |-> "version", procs_before |-> Len(procs), out |-> out,
            result |-> version_result(out)])

\* Singularity::pull_image; created: whether the runtime, once running, leaves
\* an entry at output_path
pull_image(img, path, out, created) ==
    IF exists(path)
    THEN /\ calls' = Append(calls,
                [op |-> "pull_image", image |-> img, output_path |-> path,
                 existed |-> path \in fs, procs_before |-> Len(procs),
                 out |-> None, result |-> Ok(Unit)])
         /\ UNCHANGED <<procs, fs>>
    ELSE /\ Spawn(PullArgs(img, path))
         /\ fs' = IF out.spawned /\ created THEN fs \cup {path} ELSE fs
         /\ calls' = Append(calls,
                [op |-> "pull_image", image |-> img, output_path |-> path,
                 existed |-> path \in fs, procs_before |-> Len(procs),
                 out |-> out, result |-> pull_result(out)])

----------------------------------------------------------------------------
(* shlex::split, as the driver calls it: a command is a sequence of        *)
(* characters, a token a string. None is shlex's had_error.                *)

Whitespace == {" ", "\t", "\n"}

WordErr == [err |-> TRUE, word |-> "", next |-> 0]

\* a comment runs to the end of the line: the index after its newline
RECURSIVE AfterComment(_, _)
AfterComment(s, i) ==
    IF i > Len(s) THEN i
    ELSE IF s[i] = "\n" THEN i + 1 ELSE AfterComment(s, i + 1)

\* Shlex::next up to the word: the index of the word's first character, 0 at the end
RECURSIVE SkipBlank(_, _)
SkipBlank(s, i) ==
    IF i > Len(s) THEN 0
    ELSE IF s[i] \in Whitespace THEN SkipBlank(s, i + 1)
    ELSE IF s[i] = "#" THEN SkipBlank(s, AfterComment(s, i + 1))
    ELSE i

RECURSIVE parse_word(_, _, _)
RECURSIVE parse_single(_, _, _)
RECURSIVE parse_double(_, _, _)

parse_single(s, i, acc) ==
    IF i > Len(s) THEN WordErr
    ELSE IF s[i] = "'" THEN parse_word(s, i + 1, acc)
    ELSE parse_single(s, i + 1, acc \o s[i])

parse_double(s, i, acc) ==
    IF i > Len(s) THEN WordErr
    ELSE IF s[i] = "\"" THEN parse_word(s, i + 1, acc)
    ELSE IF s[i] = "\\"
         THEN IF i + 1 > Len(s) THEN WordErr
              ELSE IF s[i + 1] = "\n" THEN parse_double(s, i + 2, acc)
              ELSE IF s[i + 1] \in {"$", "\"", "\\"}
                   THEN parse_double(s, i + 2, acc \o s[i + 1])  \* (and the backquote)
                   ELSE parse_double(s, i + 2, acc \o "\\" \o s[i + 1])
    ELSE parse_double(s, i + 1, acc \o s[i])

parse_word(s, i, acc) ==
    IF i > Len(s) THEN [err |-> FALSE, word |-> acc, next |-> i]
    ELSE IF s[i] = "\"" THEN parse_double(s, i + 1, acc)
    ELSE IF s[i] = "'" THEN parse_single(s, i + 1, acc)
    ELSE IF s[i] = "\\"
         THEN IF i + 1 > Len(s) THEN WordErr
              ELSE IF s[i + 1] = "\n" THEN parse_word(s, i + 2, acc)
              ELSE parse_word(s, i + 2, acc \o s[i + 1])
    ELSE IF s[i] \in Whitespace THEN [err |-> FALSE, word |-> acc, next |-> i + 1]
    ELSE parse_word(s, i + 1, acc \o s[i])

RECURSIVE Tokens(_, _, _)
Tokens(s, i, toks) ==
    LET j == SkipBlank(s, i)
    IN  IF j = 0 THEN Some(toks)
        ELSE LET w == parse_word(s, j, "")
             IN  IF w.err THEN None ELSE Tokens(s, w.next, Append(toks, w.word))

shlex_split(s) == Tokens(s, 1, <<>>)

\* the String a sequence of characters spells
RECURSIVE Str(_)
Str(s) == IF s = <<>> THEN "" ELSE Head(s) \o Str(Tail(s))

----------------------------------------------------------------------------
(* The driver: run(args) of singularity-driver.rs *)

RunOk == [kind |-> "Ok"]
RunErr(e) == [kind |-> "Err", err |-> e]
RunPanic(m) == [kind |-> "panic", msg |-> m]

\* Command::PullImage: `let _ = singularity.pull_image(..)`, then Ok(())
run_pull_image(img, path, out, created) ==
    /\ pull_image(img, path, out, created)
    /\ runs' = Append(runs,
           [cmd |-> "pull-image", image |-> img, output_path |-> path,
            calls_before |-> Len(calls), procs_before |-> Len(procs),
            result |-> RunOk])
    /\ UNCHANGED <<spec, writes>>

\* Command::RunContainer
run_run_container(img, command, out) ==
    LET split == shlex_split(command)
        rec(r) == [cmd |-> "run-container", image |-> img, command |-> command,
                   calls_before |-> Len(calls), procs_before |-> Len(procs),
                   result |-> r]
    IN  IF ~IsSome(split)
        THEN \* ok_or_else(|| eyre!(..))?
             /\ runs' = Append(runs, rec(RunErr("invalid command " \o Str(command))))
             /\ UNCHANGED <<spec, writes, fs, procs, calls>>
        ELSE IF 1 > Len(split[1])
        THEN \* Vec::split_off(1) panics when 1 > len
             /\ runs' = Append(runs, rec(RunPanic("split_off: at > len")))
             /\ UNCHANGED <<spec, writes, fs, procs, calls>>
        ELSE LET self == args(program(image(new, img), Head(split[1])), Tail(split[1]))
                 res == exec_result(out)
             IN  /\ exec(self, <<>>, <<>>, out)
                 /\ spec' = self
                 /\ runs' = Append(runs, rec(IF res.ok THEN RunOk
                                             ELSE RunErr("Failed to execute command: " \o res.err)))
                 /\ UNCHANGED <<writes, fs>>

----------------------------------------------------------------------------
(* Inputs *)

\* the sequences over S of length at most n
BSeq(S, n) == UNION {[1..k -> S] : k \in 0..n}

Images == {"ubuntu:latest"}
Programs == {"echo"}
ArgValues == {"hi", "-n"}
EnvNames == {"a", "b"}
EnvValues == {"1", "2", "3"}
FewEnvValues == {"1", "2"}
WorkDirs == {"/work"}
CallerBinds == {<<>>, <<<<"/h2", "/c2">>>>, <<<<"/h2", "/c2">>, <<"/h1", "/c1">>>>}
ExtraArgs == {<<>>, <<"--nv", "--cleanenv">>}
PullImages == {"docker://ubuntu:latest"}
Paths == {"/img/a.sif", "/img/b.sif"}
Chars == {"a", " ", "'", "\"", "\\", "#"}
HelloWorld == <<"e", "c", "h", "o", " ", "'", "h", "e", "l", "l", "o", " ", "w", "o", "r", "l", "d", "'">>
Commands == BSeq(Chars, MaxCmdLen) \cup {HelloWorld}

----------------------------------------------------------------------------
(* Actions.  A Singularity value is built, then used for one call, as the  *)
(* driver does (singularity-driver.rs:62-66).                              *)

SetSpec(s) ==
    /\ calls = <<>>
    /\ spec' = s
    /\ UNCHANGED <<fs, procs, calls, runs>>

Image(i) == SetSpec(image(spec, i)) /\ UNCHANGED writes

Program(p) == SetSpec(program(spec, p)) /\ UNCHANGED writes

Arg(a) ==
    /\ Len(spec.args) < MaxArgs
    /\ SetSpec(arg(spec, a))
    /\ UNCHANGED writes

Args(as) ==
    /\ Len(spec.args) + Len(as) <= MaxArgs
    /\ SetSpec(args(spec, as))
    /\ UNCHANGED writes

AttachStdout == SetSpec(attach_stdout(spec)) /\ UNCHANGED writes

AttachStderr == SetSpec(attach_stderr(spec)) /\ UNCHANGED writes

Env(k, v) == SetSpec(env(spec, k, v)) /\ UNCHANGED writes

Envs(kvs) == SetSpec(envs(spec, kvs)) /\ UNCHANGED writes

WorkDir(w) == SetSpec(work_dir(spec, w)) /\ UNCHANGED writes

SetHostConfig(h) == SetSpec(host_config(spec, h)) /\ UNCHANGED writes

\* env and envs again, with the history of the writes kept
EnvLogged(k, v) ==
    /\ Len(writes) < MaxWrites
    /\ SetSpec(env(spec, k, v))
    /\ writes' = Append(writes, <<k, v>>)

EnvsLogged(kvs) ==
    /\ Len(writes) + Len(kvs) <= MaxWrites
    /\ SetSpec(envs(spec, kvs))
    /\ writes' = writes \o kvs

Exec(binds, extra, out) ==
    /\ calls = <<>>
    /\ exec(spec, binds, extra, out)
    /\ UNCHANGED <<spec, writes, fs, runs>>

Version(out) ==
    /\ calls = <<>>
    /\ version(out)
    /\ UNCHANGED <<spec, writes, fs, runs>>

PullImage(img, path, out, created) ==
    /\ Len(calls) < MaxPulls
    /\ pull_image(img, path, out, created)
    /\ UNCHANGED <<spec, writes, runs>>

\* the environment: something else removes the entry at a path
FsRemove(path) ==
    /\ path \in fs
    /\ fs' = fs \ {path}
    /\ UNCHANGED <<spec, writes, procs, calls, runs>>

RunPullImage(img, path, out, created) ==
    /\ runs = <<>>
    /\ run_pull_image(img, path, out, created)

RunRunContainer(img, command, out) ==
    /\ runs = <<>>
    /\ run_run_container(img, command, out)

----------------------------------------------------------------------------
(* Specifications *)

Init ==
    /\ spec = new
    /\ writes = <<>>
    /\ fs = {}
    /\ procs = <<>>
    /\ calls = <<>>
    /\ runs = <<>>

\* any filesystem to start from
InitFs ==
    /\ spec = new
    /\ writes = <<>>
    /\ fs \in SUBSET Paths
    /\ procs = <<>>
    /\ calls = <<>>
    /\ runs = <<>>

\* the builder, then exec or version
Next ==
    \/ \E i \in Images : Image(i)
    \/ \E p \in Programs : Program(p)
    \/ \E a \in ArgValues : Arg(a)
    \/ \E as \in BSeq(ArgValues, MaxArgs) : Args(as)
    \/ AttachStdout
    \/ AttachStderr
    \/ \E k \in EnvNames, v \in FewEnvValues : Env(k, v)
    \/ \E kvs \in BSeq(EnvNames \X FewEnvValues, 2) : Envs(kvs)
    \/ \E w \in WorkDirs : WorkDir(w)
    \/ \E h \in HostConfigs : SetHostConfig(h)
    \/ \E b \in CallerBinds, a \in ExtraArgs, out \in ProcOutcomes : Exec(b, a, out)
    \/ \E out \in ProcOutcomes : Version(out)

Spec == Init /\ [][Next]_vars

\* env and envs with their history, then exec
NextEnv ==
    \/ \E k \in EnvNames, v \in EnvValues : EnvLogged(k, v)
    \/ \E kvs \in BSeq(EnvNames \X EnvValues, 2) : EnvsLogged(kvs)
    \/ \E b \in CallerBinds, a \in ExtraArgs, out \in ProcOutcomes : Exec(b, a, out)

SpecEnv == Init /\ [][NextEnv]_vars

\* pull_image calls on a filesystem
NextPull ==
    \/ \E img \in PullImages, path \in Paths, out \in ProcOutcomes, created \in BOOLEAN :
           PullImage(img, path, out, created)
    \/ \E path \in Paths : FsRemove(path)

SpecPull == InitFs /\ [][NextPull]_vars

\* one run of the driver
NextDriver ==
    \/ \E img \in PullImages, path \in Paths, out \in ProcOutcomes, created \in BOOLEAN :
           RunPullImage(img, path, out, created)
    \/ \E img \in Images, command \in Commands, out \in ProcOutcomes :
           RunRunContainer(img, command, out)

SpecDriver == InitFs /\ [][NextDriver]_vars

----------------------------------------------------------------------------
(* Reading the histories *)

\* the number of processes call i handed to the OS
SpawnedBy(i) ==
    (IF i = Len(calls) THEN Len(procs) ELSE calls[i + 1].procs_before)
        - calls[i].procs_before

\* the first process of call i
ProcOf(i) == procs[calls[i].procs_before + 1]

ExecCalls == {i \in DOMAIN calls : calls[i].op = "exec"}

PullCalls == {i \in DOMAIN calls : calls[i].op = "pull_image"}

\* the number of fields among fs that are present in the HostConfig of self
PresentCount(self, fields) ==
    IF self.host_config = <<>> THEN 0
    ELSE Cardinality({f \in fields : self.host_config[1][f] /= <<>>})

----------------------------------------------------------------------------
(* C1 *)

\* what the claim lists, for the call record c
C1_Binds(c) ==
    LET hc == c.self.host_config
        bs == IF hc /= <<>> /\ hc[1].binds /= <<>> THEN hc[1].binds[1] ELSE c.binds
    IN  [i \in 1..Len(bs) |-> "--bind " \o bs[i][1] \o ":" \o bs[i][2]]

C1_Limit(c, flag, field) ==
    LET hc == c.self.host_config
    IN  IF hc /= <<>> /\ hc[1][field] /= <<>>
        THEN <<flag \o FmtU64(hc[1][field][1])>>
        ELSE <<>>

C1_Expected(c) ==
    <<"exec">>
    \o C1_Binds(c)
    \o C1_Limit(c, "--cpu-shares=", "cpu_shares")
    \o C1_Limit(c, "--cpus=", "cpus")
    \o C1_Limit(c, "--memory=", "memory")
    \o C1_Limit(c, "--memory-reservation=", "memory_reservation")
    \o [i \in 1..Len(c.self.env) |-> "--env " \o c.self.env[i][1] \o "=" \o c.self.env[i][2]]
    \o (IF c.self.work_dir /= <<>> THEN <<"--workdir " \o c.self.work_dir[1]>> ELSE <<>>)
    \o (IF c.self.host_config /= <<>> /\ c.self.host_config[1].contain_all
        THEN <<"--containall">> ELSE <<>>)
    \o c.args
    \o <<c.self.image, c.self.program>>
    \o c.self.args

\* C1: the argument vector exec hands to the runtime is "exec", the selected
\* binds, the present resource limits (cpu_shares, cpus, memory,
\* memory_reservation), the env entries in map order, the workdir, containall,
\* the caller's extra args, the image, the program and spec.args, in this order,
\* one element each; so the image is immediately followed by the program and
\* only spec.args follow the program.
C1_ArgvOrder ==
    \A i \in ExecCalls :
        LET c == calls[i]
            argv == ProcOf(i).args
            n == Len(argv) - Len(c.self.args)
        IN  /\ ProcOf(i).cmd = "singularity"
            /\ argv = C1_Expected(c)
            /\ argv[n - 1] = c.self.image
            /\ argv[n] = c.self.program
            /\ SubSeq(argv, n + 1, Len(argv)) = c.self.args

\* an exec with binds, limits, two env entries, a workdir, containall, extra
\* args, an image, a program and two arguments
C1_Witness ==
    \E i \in ExecCalls :
        LET c == calls[i]
        IN  /\ c.self.host_config = <<DefaultHostConfig>>
            /\ Len(c.binds) = 2
            /\ Len(c.self.env) = 2
            /\ c.self.work_dir /= <<>>
            /\ Len(c.args) = 2
            /\ c.self.image = "ubuntu:latest"
            /\ c.self.program = "echo"
            /\ c.self.args = <<"-n", "hi">>
            /\ Len(ProcOf(i).args) = 15

----------------------------------------------------------------------------
(* C2 *)

C2_Chosen(c) ==
    IF c.self.host_config /= <<>> /\ c.self.host_config[1].binds /= <<>>
    THEN c.self.host_config[1].binds[1]
    ELSE c.binds

\* the elements of the vector that are no bind flag
C2_OtherCount(c) ==
    1 + PresentCount(c.self, {"cpu_shares", "cpus", "memory", "memory_reservation"})
      + Len(c.self.env)
      + (IF c.self.work_dir /= <<>> THEN 1 ELSE 0)
      + (IF c.self.host_config /= <<>> /\ c.self.host_config[1].contain_all THEN 1 ELSE 0)
      + Len(c.args) + 2 + Len(c.self.args)

\* C2: the bind flags exec emits are the HostConfig's list, in order, when
\* host_config is present and its binds is Some (the caller's binds are then
\* ignored, also when that list is empty), and the caller's binds, in order,
\* otherwise; an empty source emits no bind flag.
C2_BindPrecedence ==
    \A i \in ExecCalls :
        LET c == calls[i]
            argv == ProcOf(i).args
            bs == C2_Chosen(c)
        IN  /\ Len(argv) = Len(bs) + C2_OtherCount(c)
            /\ \A j \in 1..Len(bs) :
                   argv[1 + j] = "--bind " \o bs[j][1] \o ":" \o bs[j][2]

\* an exec where both the HostConfig and the caller give binds, and one where
\* the HostConfig's list is empty and the caller's is not
C2_Witness ==
    \E i \in ExecCalls :
        /\ calls[i].self.host_config /= <<>>
        /\ calls[i].self.host_config[1].binds = << <<<<"/h1", "/c1">>, <<"/h3", "/c3">>>> >>
        /\ calls[i].binds = <<<<"/h2", "/c2">>>>
        /\ ProcOf(i).args[2] = "--bind /h1:/c1"
        /\ ProcOf(i).args[3] = "--bind /h3:/c3"

----------------------------------------------------------------------------
(* C3 *)

\* the distinct names written, in the order of their first write
RECURSIVE C3_Names(_)
C3_Names(ws) ==
    IF ws = <<>> THEN <<>>
    ELSE LET before == C3_Names(SubSeq(ws, 1, Len(ws) - 1))
             k == ws[Len(ws)][1]
         IN  IF \E j \in DOMAIN before : before[j] = k THEN before
             ELSE Append(before, k)

\* the value of the last write to name k
C3_LastValue(ws, k) ==
    LET last == CHOOSE j \in DOMAIN ws :
                    /\ ws[j][1] = k
                    /\ \A l \in DOMAIN ws : l > j => ws[l][1] /= k
    IN  ws[last][2]

\* the elements of the vector before the env flags
C3_Before(c) ==
    1 + Len(C2_Chosen(c))
      + PresentCount(c.self, {"cpu_shares", "cpus", "memory", "memory_reservation"})

\* C3: after any sequence of env and envs calls, exec emits one env flag per
\* distinct name written, in the order of the names' first writes, each with
\* the value of the last write to its name.
C3_EnvOrder ==
    \A i \in ExecCalls :
        LET c == calls[i]
            argv == ProcOf(i).args
            names == C3_Names(writes)
        IN  /\ Len(argv) = Len(C2_Chosen(c)) + C2_OtherCount(c)
            /\ Len(c.self.env) = Len(names)
            /\ \A j \in 1..Len(names) :
                   argv[C3_Before(c) + j]
                       = "--env " \o names[j] \o "=" \o C3_LastValue(writes, names[j])

\* (a,1), (b,2), then a set to 3: exec emits a=3, then b=2
C3_Witness ==
    /\ writes = <<<<"a", "1">>, <<"b", "2">>, <<"a", "3">>>>
    /\ \E i \in ExecCalls :
           /\ calls[i].binds = <<>>
           /\ SubSeq(ProcOf(i).args, 1, 3) = <<"exec", "--env a=3", "--env b=2">>

----------------------------------------------------------------------------
(* C4 *)

\* C4 as stated: two successive pull_image calls with the same output_path
\* invoke the external pull at most once in total, and the second returns
\* success without invoking the runtime, whatever the filesystem and the runtime do.
C4_AtMostOncePull ==
    \A i \in PullCalls :
        (i + 1 \in PullCalls /\ calls[i + 1].output_path = calls[i].output_path)
            => /\ SpawnedBy(i) + SpawnedBy(i + 1) <= 1
               /\ SpawnedBy(i + 1) = 0
               /\ calls[i + 1].result = Ok(Unit)

\* C4 amended: of two successive pull_image calls with the same output_path, the
\* second returns success without invoking the runtime, and the pull is invoked
\* at most once in total, whenever an entry exists at output_path as the second
\* call starts; when none exists then, the second call invokes the runtime again.
C4_AtMostOncePullWhenPresent ==
    \A i \in PullCalls :
        (i + 1 \in PullCalls /\ calls[i + 1].output_path = calls[i].output_path)
            => IF calls[i + 1].existed
               THEN /\ SpawnedBy(i) + SpawnedBy(i + 1) <= 1
                    /\ SpawnedBy(i + 1) = 0
                    /\ calls[i + 1].result = Ok(Unit)
               ELSE SpawnedBy(i + 1) = 1

\* the first call pulls and leaves the image, the second finds it
C4_Witness ==
    \E i \in PullCalls :
        /\ i + 1 \in PullCalls
        /\ calls[i + 1].output_path = calls[i].output_path
        /\ ~calls[i].existed
        /\ SpawnedBy(i) = 1
        /\ calls[i].result = Ok(Unit)
        /\ calls[i + 1].existed
        /\ SpawnedBy(i + 1) = 0

----------------------------------------------------------------------------
(* C5 *)

\* C5: one pull_image call returns success and spawns nothing when an entry
\* exists at output_path; otherwise it spawns one runtime process with the
\* arguments "pull", output_path, image, and returns success iff it was spawned
\* and exited with status zero, an error carrying the stderr on a nonzero exit and
\* an error when it could not be spawned.
C5_PullOnce ==
    \A i \in PullCalls :
        LET c == calls[i]
        IN  IF c.existed
            THEN c.result = Ok(Unit) /\ SpawnedBy(i) = 0
            ELSE /\ SpawnedBy(i) = 1
                 /\ ProcOf(i) = [cmd |-> "singularity",
                                 args |-> <<"pull", c.output_path, c.image>>]
                 /\ c.result.ok <=> (c.out.spawned /\ c.out.status = 0)
                 /\ c.result.ok => c.result = Ok(Unit)
                 /\ (c.out.spawned /\ c.out.status /= 0)
                        => c.result = Err("Failed to pull image: " \o c.out.stderr)

\* a pull whose runtime exits nonzero
C5_Witness ==
    \E i \in PullCalls :
        /\ ~calls[i].existed
        /\ calls[i].out.spawned
        /\ calls[i].out.status = 1
        /\ calls[i].result = Err("Failed to pull image: boom")
        /\ SpawnedBy(i) = 1

----------------------------------------------------------------------------
(* C6 *)

\* C6: every exec call and every version call spawns exactly one process; it
\* returns success (exec: the captured stdout, stderr and status, version: the
\* captured stdout) iff the process was spawned and exited with status zero, an
\* error carrying the stderr when it exited nonzero, and an error when it could
\* not be spawned.
C6_ExecVersionOnce ==
    \A i \in DOMAIN calls :
        LET c == calls[i]
        IN  c.op \in {"exec", "version"} =>
                /\ SpawnedBy(i) = 1
                /\ c.result.ok <=> (c.out.spawned /\ c.out.status = 0)
                /\ c.result.ok =>
                       c.result.val =
                           (IF c.op = "exec"
                            THEN [status |-> 0, stdout |-> c.out.stdout, stderr |-> c.out.stderr]
                            ELSE c.out.stdout)
                /\ (c.out.spawned /\ c.out.status /= 0) =>
                       c.result.err =
                           (IF c.op = "exec" THEN "Failed to execute command: "
                            ELSE "Failed to get Singularity version: ") \o c.out.stderr

\* an exec whose process exits nonzero
C6_Witness ==
    \E i \in ExecCalls :
        /\ calls[i].out.spawned
        /\ calls[i].out.status = 1
        /\ calls[i].result = Err("Failed to execute command: boom")
        /\ SpawnedBy(i) = 1

----------------------------------------------------------------------------
(* C7 *)

\* the gateway calls a run of the driver made
CallsOf(r) ==
    {i \in DOMAIN calls :
        /\ i > runs[r].calls_before
        /\ (r = Len(runs) \/ i <= runs[r + 1].calls_before)}

\* C7: for both subcommands, whenever the underlying operation returns a
\* failure, the result of the driver's run is an error.
C7_FailuresPropagate ==
    \A r \in DOMAIN runs :
        (\E i \in CallsOf(r) : ~calls[i].result.ok) => runs[r].result.kind = "Err"

----------------------------------------------------------------------------
(* C8 *)

\* C8: an exec call on a ContainerSpec whose image or program is empty returns
\* an error and spawns no external process.
C8_EmptyImageOrProgramRejected ==
    \A i \in ExecCalls :
        (calls[i].self.image = "" \/ calls[i].self.program = "")
            => ~calls[i].result.ok /\ SpawnedBy(i) = 0

----------------------------------------------------------------------------
(* C9 *)

\* C9: with the default HostConfig and no caller binds or extra args, exec emits
\* --cpus=1, then --memory-reservation=2147483648, then --containall (the env and
\* workdir flags between the last two), no cpu-shares, memory or bind flag, and
\* the vector ends with the image, the program and spec.args.
C9_DefaultHostConfigFlags ==
    \A i \in ExecCalls :
        LET c == calls[i]
        IN  (c.self.host_config = <<DefaultHostConfig>> /\ c.binds = <<>> /\ c.args = <<>>)
                => ProcOf(i).args =
                       <<"exec", "--cpus=1", "--memory-reservation=2147483648">>
                       \o [j \in 1..Len(c.self.env) |->
                              "--env " \o c.self.env[j][1] \o "=" \o c.self.env[j][2]]
                       \o (IF c.self.work_dir = <<>> THEN <<>>
                           ELSE <<"--workdir " \o c.self.work_dir[1]>>)
                       \o <<"--containall", c.self.image, c.self.program>>
                       \o c.self.args

\* image ubuntu:latest, program echo, args [hi], the default HostConfig
C9_Witness ==
    \E i \in ExecCalls :
        /\ calls[i].self.host_config = <<DefaultHostConfig>>
        /\ calls[i].binds = <<>>
        /\ calls[i].args = <<>>
        /\ ProcOf(i).args =
               <<"exec", "--cpus=1", "--memory-reservation=2147483648", "--containall",
                 "ubuntu:latest", "echo", "hi">>

----------------------------------------------------------------------------
(* C10 *)

\* C10: for every command string, run-container either returns an error before
\* any process is spawned (the string does not tokenize, or yields no token), or
\* invokes exec exactly once with the first token as program, the remaining
\* tokens as spec.args and no caller binds or extra args; it never panics.
C10_RunContainerNeverPanics ==
    \A r \in DOMAIN runs :
        runs[r].cmd = "run-container" =>
            LET split == shlex_split(runs[r].command)
            IN  /\ runs[r].result.kind /= "panic"
                /\ IF split = <<>> \/ split = <<<<>>>>
                   THEN /\ runs[r].result.kind = "Err"
                        /\ CallsOf(r) = {}
                        /\ Len(procs) = runs[r].procs_before
                   ELSE /\ Cardinality(CallsOf(r)) = 1
                        /\ \A i \in CallsOf(r) :
                               /\ calls[i].op = "exec"
                               /\ calls[i].self.program = split[1][1]
                               /\ calls[i].self.args = Tail(split[1])
                               /\ calls[i].binds = <<>>
                               /\ calls[i].args = <<>>
                               /\ SpawnedBy(i) = 1

====
